---- MODULE Spec2Model ----
(***************************************************************************)
(* Model of quantificationLogic (src/quantification/quantification.py):    *)
(* the SER colour-map state of the logic object and the process pipeline   *)
(* (validation, confirmation, empty-mask fallback, PE / SER maps,          *)
(* neighbourhood filter, SER classification, FTV, TIC, tables).            *)
(*                                                                         *)
(* Numbers.  Voxel intensities are integers counted in units of            *)
(* self.EPSILON (1.0e-6), so that S + EPSILON is S + 1 and every quotient  *)
(* the code forms is an exact fraction <<num, den>>.  A division by zero   *)
(* gives what numpy gives: +inf <<1,0>>, -inf <<-1,0>>, nan <<0,0>>, no    *)
(* exception.  SER bin edges are counted in hundredths, percentages in     *)
(* whole percents.                                                         *)
(***************************************************************************)
EXTENDS Integers, Sequences, FiniteSets, TLC

VARIABLES
    shape,      \* <<nz, ny, nx>>: spatial shape of every volume of the input sequence
    volume,     \* the input sequence: frames t = 1..nt, each a function voxel -> intensity
    logic,      \* attributes of the quantificationLogic object (SER colour map state)
    scene,      \* names of the temporary nodes process has in the MRML scene
    segments,   \* segments of the mask segmentation node, in order: [id, name, mask]
    outputMaps, \* outputMapsSequenceNode: index value -> array (or "none")
    labelMap,   \* outputLabelMapVolumeNode: array (or "none")
    tables,     \* the three table nodes: sequences of columns / rows
    pc,         \* position of the current process invocation
    err,        \* exception the last invocation raised ("none" if none)
    args,       \* arguments of the current / last invocation
    frame,      \* local variables of process
    asked,      \* number of confirmation requests of the current invocation
    runs,       \* number of process invocations started
    prev,       \* arguments and maps of the latest completed invocation (history)
    widget      \* the quantificationWidget: parameter node, observations, Apply button

vars == <<shape, volume, logic, scene, segments, outputMaps, labelMap, tables,
          pc, err, args, frame, asked, runs, prev, widget>>

----------------------------------------------------------------------------
(* Bounds of the model *)

\* largest voxel intensity, in units of EPSILON
MaxI == 3
\* number of process invocations in one behaviour
MaxRuns == 3

(* Program constants *)

EPSILON == 1
INF_THRESHOLD == 1000000
PIXEL_CONNECTIVITY == 4

----------------------------------------------------------------------------
(* Small arithmetic helpers *)

Min(a, b) == IF a <= b THEN a ELSE b
Max(a, b) == IF a >= b THEN a ELSE b
Abs(a) == IF a < 0 THEN -a ELSE a

RECURSIVE GCD(_, _)
GCD(a, b) == IF b = 0 THEN a ELSE GCD(b, a % b)

\* The float a numerator / denominator pair stands for: sign carried by the
\* numerator, lowest terms; den = 0 is +-inf or nan as numpy produces them.
Frac(n, d) ==
    IF d = 0 THEN <<(IF n > 0 THEN 1 ELSE IF n < 0 THEN -1 ELSE 0), 0>>
    ELSE LET s == IF d < 0 THEN -1 ELSE 1
             g == GCD(Abs(n), Abs(d))
         IN  <<(s * n) \div g, (s * d) \div g>>

Zero == <<0, 1>>
IsNaN(r) == r[1] = 0 /\ r[2] = 0
\* r < k, r > k, r >= k, r <= k for an integer k (every comparison with nan is false)
LtInt(r, k) == ~IsNaN(r) /\ r[1] < k * r[2]
GtInt(r, k) == ~IsNaN(r) /\ r[1] > k * r[2]
GeInt(r, k) == ~IsNaN(r) /\ r[1] >= k * r[2]
LeInt(r, k) == ~IsNaN(r) /\ r[1] <= k * r[2]
\* r > h/100 and r <= h/100 for a bound h given in hundredths
GtHundredths(r, h) == ~IsNaN(r) /\ 100 * r[1] > h * r[2]
LeHundredths(r, h) == ~IsNaN(r) /\ 100 * r[1] <= h * r[2]

----------------------------------------------------------------------------
(* Arrays.  A voxel is <<z, y, x>>, as numpy indexes the array of a volume. *)

Voxels(sh) == (0 .. sh[1] - 1) \X (0 .. sh[2] - 1) \X (0 .. sh[3] - 1)

\* a[zmin:zmax, ymin:ymax, xmin:xmax] of an array of shape sh: the index set
\* of the slice (numpy cuts a slice at the end of the axis without complaint).
\* roi is the dictionary getBoxROIIJKCoordinates returns, in I,J,K = x,y,z order.
SliceOf(sh, roi) ==
    {v \in Voxels(sh) : /\ roi.IJKmin[3] <= v[1] /\ v[1] < roi.IJKmax[3]
                        /\ roi.IJKmin[2] <= v[2] /\ v[2] < roi.IJKmax[2]
                        /\ roi.IJKmin[1] <= v[3] /\ v[3] < roi.IJKmax[1]}

\* lengths of that slice along z, y, x
SliceDims(sh, roi) ==
    <<Max(0, Min(roi.IJKmax[3], sh[1]) - roi.IJKmin[3]),
      Max(0, Min(roi.IJKmax[2], sh[2]) - roi.IJKmin[2]),
      Max(0, Min(roi.IJKmax[1], sh[3]) - roi.IJKmin[1])>>

\* numpy's rule for target[slice] = value: every axis of the value has the
\* length of the slice's axis or length 1 (which is repeated)
CanAssign(valueDims, sliceDims) ==
    \A a \in 1 .. 3 : valueDims[a] = sliceDims[a] \/ valueDims[a] = 1

\* np.zeros(sh)
\* largest and smallest k-th coordinate of the cells of a non-empty set
Max3(k, cells) == CHOOSE m \in {v[k] : v \in cells} : \A v \in cells : v[k] <= m
Min3(k, cells) == CHOOSE m \in {v[k] : v \in cells} : \A v \in cells : v[k] >= m

Zeros(sh) == [shape |-> sh, at |-> [v \in Voxels(sh) |-> Zero]]
ZerosInt(sh) == [shape |-> sh, at |-> [v \in Voxels(sh) |-> 0]]

\* template[slice] = value, value being indexed by the voxels of the crop
AssignSlice(template, roi, value) ==
    [template EXCEPT !.at =
        [v \in Voxels(template.shape) |->
            IF v \in SliceOf(template.shape, roi) /\ v \in DOMAIN value
            THEN value[v] ELSE template.at[v]]]

----------------------------------------------------------------------------
(* getVolumeDataFromSequence and the shape process reads from it *)

\* number of data nodes of the input sequence
nt == Len(volume)

\* [nt, nz, nx, ny] = inputVolume4Darray.shape, the array being [nt, nz, ny, nx]:
\* the name nx receives the number of rows and ny the number of columns
CodeNz == shape[1]
CodeNx == shape[2]
CodeNy == shape[3]

\* np.zeros((nz, ny, nx)) with the names as process assigned them
TemplateShape == <<CodeNz, CodeNy, CodeNx>>

\* a python index into the time axis (negative indices count from the end)
TimeIndex(i) == IF i < 0 THEN nt + i + 1 ELSE i + 1

\* whether inputVolume4Darray[i] exists
ValidIndex(i) == -nt <= i /\ i <= nt - 1

----------------------------------------------------------------------------
(* Geometry: getBoxROIIJKCoordinates / convertRAStoIJKVolumeNodeCoordinates *)

\* np.round of a coordinate given in halves (h stands for h/2): to the nearest
\* integer, a tie to the even one
RoundHalf(h) ==
    IF h % 2 = 0 THEN h \div 2
    ELSE LET lo == (h - 1) \div 2 IN IF lo % 2 = 0 THEN lo ELSE lo + 1

\* variant: only the coordinates below 0 are moved into the volume
ClampIJKBelowOnly(h, dim) ==
    LET r == RoundHalf(h) IN IF r < 0 THEN 0 ELSE r

\* one coordinate: rounded, then set to 0 or to dim - 1 when outside the volume
ClampIJK(h, dim) ==
    LET r == RoundHalf(h) IN IF r < 0 THEN 0 ELSE IF r > dim - 1 THEN dim - 1 ELSE r

\* corners are the two corners of the box after the RAS-to-IJK matrix, in
\* halves of a voxel; volumeSize is GetDimensions(), in I,J,K order
convertRAStoIJKVolumeNodeCoordinates(corners, volumeSize) ==
    LET lo == [a \in 1 .. 3 |-> ClampIJK(corners.RASmin[a], volumeSize[a])]
        hi == [a \in 1 .. 3 |-> ClampIJK(corners.RASmax[a], volumeSize[a])]
    IN  [IJKmin |-> [a \in 1 .. 3 |-> Min(lo[a], hi[a])],
         IJKmax |-> [a \in 1 .. 3 |-> Max(lo[a], hi[a]) + 1]]

\* GetImageData().GetDimensions() of a volume of the input sequence: I,J,K
VolumeSize == <<shape[3], shape[2], shape[1]>>

getBoxROIIJKCoordinates(markupROINode) ==
    convertRAStoIJKVolumeNodeCoordinates(markupROINode, VolumeSize)

----------------------------------------------------------------------------
(* The SER colour map of the logic object: getSERColourMapDict / setSERColourMapDict *)

\* serMapInterval = [0.00, 0.90, 1.0, 1.30, 1.75, 3.00], in hundredths
serMapInterval == <<0, 90, 100, 130, 175, 300>>

serMapColours == <<"black", "blue", "purple", "green", "red", "yellow", "white">>

\* str() of a float given in hundredths: 90 is "0.9", 175 is "1.75", 300 is "3.0"
FloatStr(h) ==
    ToString(h \div 100) \o "." \o
    (IF h % 10 = 0 THEN ToString((h % 100) \div 10)
     ELSE ToString((h % 100) \div 10) \o ToString(h % 10))

\* f'{lb} < SER <= {ub}' (the source writes the sign of "at most" as one character)
BinLegend(lb, ub) == FloatStr(lb) \o " < SER <= " \o FloatStr(ub)
\* f'{serMapInterval[-1]} < SER '
UpperLegend(ub) == FloatStr(ub) \o " < SER "

\* the attributes of a freshly constructed logic object (__init__): the
\* dictionary is None and SERLevelLB, SERLevelUB, SERlegend do not exist yet
FreshLogic ==
    [attributes |-> {},
     SERColourMapDictionary |-> <<>>,
     SERLevelLB |-> <<>>,
     SERLevelUB |-> <<>>,
     SERlegend |-> <<>>]

\* variant: the dictionary without its first entry 'non SER'
SERColourMapWithoutBackground ==
    LET n  == Len(serMapInterval) - 1
        lb == [i \in 1 .. n |-> serMapInterval[i]]
        ub == [i \in 1 .. n |-> serMapInterval[i + 1]]
        legend == [i \in 1 .. n + 1 |->
                     IF i <= n THEN BinLegend(lb[i], ub[i])
                     ELSE UpperLegend(serMapInterval[n + 1])]
    IN  [attributes |-> {"SERLevelLB", "SERLevelUB", "SERlegend"},
         SERColourMapDictionary |->
             [i \in 1 .. n + 1 |->
                 [legend |-> legend[i],
                  colour |-> IF i <= n THEN serMapColours[i + 1]
                             ELSE serMapColours[Len(serMapColours)]]],
         SERLevelLB |-> lb,
         SERLevelUB |-> ub,
         SERlegend |-> legend]

\* the attributes after setSERColourMapDict
SERColourMap ==
    LET n  == Len(serMapInterval) - 1
        lb == [i \in 1 .. n |-> serMapInterval[i]]
        ub == [i \in 1 .. n |-> serMapInterval[i + 1]]
        legend == [i \in 1 .. n + 1 |->
                     IF i <= n THEN BinLegend(lb[i], ub[i])
                     ELSE UpperLegend(serMapInterval[n + 1])]
    IN  [attributes |-> {"SERLevelLB", "SERLevelUB", "SERlegend"},
         SERColourMapDictionary |->
             <<[legend |-> "non SER", colour |-> serMapColours[1]]>> \o
             [i \in 1 .. n + 1 |->
                 [legend |-> legend[i],
                  colour |-> IF i <= n THEN serMapColours[i + 1]
                             ELSE serMapColours[Len(serMapColours)]]],
         SERLevelLB |-> lb,
         SERLevelUB |-> ub,
         SERlegend |-> legend]

setSERColourMapDict(lg) == SERColourMap

\* the logic object after getSERColourMapDict
getSERColourMapDict(lg) ==
    IF lg.SERColourMapDictionary = <<>> THEN setSERColourMapDict(lg) ELSE lg

\* number of configured SER bins
NBins == Len(serMapInterval) - 1

----------------------------------------------------------------------------
(* The map computation of process, as functions of the cropped arrays.      *)
(* vol is the 4D array, crop the set of voxels kept by the ROI slice, lbl   *)
(* the set of voxels where the label array is non-zero.                     *)

\* k-th smallest (k = 0, 1, ...) of the values f takes on the non-empty set D
KthSmallest(f, D, k) ==
    CHOOSE a \in {f[v] : v \in D} :
        /\ Cardinality({v \in D : f[v] < a}) <= k
        /\ k < Cardinality({v \in D : f[v] <= a})

\* 20 * np.percentile(St0, 95): linear interpolation between the two order
\* statistics around position 0.95 * (n - 1)
Percentile95x20(f, D) ==
    LET n   == Cardinality(D)
        pos == 19 * (n - 1)
        k   == pos \div 20
        r   == pos % 20
        a   == KthSmallest(f, D, k)
        b   == KthSmallest(f, D, Min(k + 1, n - 1))
    IN  20 * a + r * (b - a)

\* (St0 >= bckgrnd_thresh) & label, bckgrnd_thresh = (BKGRNDthreshold/100.0) * percentile
BackgroundMask(St0, crop, lbl, BKGRNDthreshold) ==
    {v \in crop : /\ 2000 * St0[v] >= BKGRNDthreshold * Percentile95x20(St0, crop)
                  /\ v \in lbl}

\* variant: the enhancement as a fraction, not as a percentage
PEFraction(St0, St1, crop) ==
    [v \in crop |-> Frac(St1[v] - St0[v], St0[v] + EPSILON)]

\* PE = 100 * St1_minus_St0 / (St0 + self.EPSILON)
PEraw(St0, St1, crop) ==
    [v \in crop |-> Frac(100 * (St1[v] - St0[v]), St0[v] + EPSILON)]

\* variant: the PE threshold taken as a strict bound
PEMaskStrict(pe, mask, PEthreshold) == {v \in mask : GtInt(pe[v], PEthreshold)}

\* base_mask &= (PE >= PEthreshold)
PEMask(pe, mask, PEthreshold) == {v \in mask : GeInt(pe[v], PEthreshold)}

\* np.where(base_mask, A, 0)
Where(mask, A) == [v \in DOMAIN A |-> IF v \in mask THEN A[v] ELSE Zero]

\* variant: only the clamp of negative values, no clamp at INF_THRESHOLD
ClampSERBelowOnly(r) == IF LtInt(r, 0) THEN Zero ELSE r

\* SER[SER < 0.0] = 0.0; SER[SER > self.INF_THRESHOLD] = 0.0
ClampSER(r) ==
    LET r1 == IF LtInt(r, 0) THEN Zero ELSE r
    IN  IF GtInt(r1, INF_THRESHOLD) THEN Zero ELSE r1

\* SER = St1_minus_St0 / (Stn_minus_St0 + self.EPSILON), then the two clamps
SERclamped(St0, St1, Stn, crop) ==
    [v \in crop |-> ClampSER(Frac(St1[v] - St0[v], (Stn[v] - St0[v]) + EPSILON))]

\* base_mask &= (SER >= 0.0)
SERMask(ser, mask) == {v \in mask : GeInt(ser[v], 0)}

\* the 26 cells around v in the 3x3x3 neighbourhood
Neighbours(v) ==
    {w \in (v[1] - 1 .. v[1] + 1) \X (v[2] - 1 .. v[2] + 1) \X (v[3] - 1 .. v[3] + 1) :
        w # v}

\* signal.convolve(base_mask, kernel, mode='same'), kernel of ones with 100 in
\* the centre: cells outside the array count as 0
\* (the sums are whole numbers, computed exactly as the direct method does)
Convolve(mask, v) ==
    (IF v \in mask THEN 100 ELSE 0) + Cardinality(Neighbours(v) \cap mask)

\* variant: more than PIXEL_CONNECTIVITY neighbours asked for
ConnectivityMaskStrict(mask, crop) ==
    {v \in crop : Convolve(mask, v) > 100 + PIXEL_CONNECTIVITY}

\* base_mask = (convbrmask >= (100 + self.PIXEL_CONNECTIVITY))
ConnectivityMask(mask, crop) ==
    {v \in crop : Convolve(mask, v) >= 100 + PIXEL_CONNECTIVITY}

\* variant: the bins taken as closed below and open above
RECURSIVE ClassUpToLowerInclusive(_, _, _, _)
ClassUpToLowerInclusive(r, LB, UB, i) ==
    IF i = 0 THEN 0
    ELSE IF ~IsNaN(r) /\ 100 * r[1] >= LB[i] * r[2] /\ 100 * r[1] < UB[i] * r[2] THEN i
    ELSE ClassUpToLowerInclusive(r, LB, UB, i - 1)

\* the class the loop over the bins leaves at a voxel whose SER is r: a later
\* bin overwrites an earlier one, then SER > SERLevelUB[-1] gets NBins + 1
RECURSIVE ClassUpTo(_, _, _, _)
ClassUpTo(r, LB, UB, i) ==
    IF i = 0 THEN 0
    ELSE IF GtHundredths(r, LB[i]) /\ LeHundredths(r, UB[i]) THEN i
    ELSE ClassUpTo(r, LB, UB, i - 1)

SERClassOf(r, LB, UB) ==
    IF GtHundredths(r, UB[Len(UB)]) THEN Len(UB) + 1
    ELSE ClassUpTo(r, LB, UB, Len(UB))

\* SERmap after the loop and after SERmap *= base_mask
Classify(ser, mask, LB, UB) ==
    [v \in DOMAIN ser |-> IF v \in mask THEN SERClassOf(ser[v], LB, UB) ELSE 0]

----------------------------------------------------------------------------
(* Statistics of the time-intensity curve *)

AddFrac(a, b) == Frac(a[1] * b[2] + b[1] * a[2], a[2] * b[2])

RECURSIVE SumFrac(_, _)
SumFrac(f, D) ==
    IF D = {} THEN Zero
    ELSE LET v == CHOOSE w \in D : TRUE IN AddFrac(f[v], SumFrac(f, D \ {v}))

\* A[seg_points].mean(): nan for an empty selection (numpy warns, it does not raise)
MeanOver(f, D) ==
    LET t == SumFrac(f, D) IN Frac(t[1], t[2] * Cardinality(D))

\* uptake_ti[time_index] = 100 * St_minus_St0 / (St0 + self.EPSILON)
Uptake(St0, St, crop) ==
    [v \in crop |-> Frac(100 * (St[v] - St0[v]), St0[v] + EPSILON)]

SubFrac(a, b) == Frac(a[1] * b[2] - b[1] * a[2], a[2] * b[2])
MulFrac(a, b) == Frac(a[1] * b[1], a[2] * b[2])
DivFrac(a, b) == Frac(a[1] * b[2], a[2] * b[1])
NaN == <<0, 0>>

\* np.polyfit(x, y, 1) on the points with index in I, as <<m_slope, n_coeff>>:
\* the least-squares line when the points have two or more different x; for a
\* single point (x, y) with x # 0 the solution of least norm on the columns
\* scaled by their length, m = y / (2 x) and n = y / 2 (numpy warns of the poor
\* conditioning, it does not raise)
polyfit(x, y, I) ==
    LET N   == Frac(Cardinality(I), 1)
        Sx  == SumFrac(x, I)
        Sy  == SumFrac(y, I)
        Sxx == SumFrac([i \in I |-> MulFrac(x[i], x[i])], I)
        Sxy == SumFrac([i \in I |-> MulFrac(x[i], y[i])], I)
        m   == DivFrac(SubFrac(MulFrac(N, Sxy), MulFrac(Sx, Sy)),
                       SubFrac(MulFrac(N, Sxx), MulFrac(Sx, Sx)))
    IN  IF Cardinality(I) = 1
        THEN LET i == CHOOSE j \in I : TRUE
             IN  <<DivFrac(y[i], MulFrac(Frac(2, 1), x[i])), DivFrac(y[i], Frac(2, 1))>>
        ELSE <<m, DivFrac(SubFrac(Sy, MulFrac(m, Sx)), N)>>

\* np.polyval(lin_params, time_axis)
polyval(lin_params, x, I) ==
    [i \in I |-> AddFrac(MulFrac(lin_params[1], x[i]), lin_params[2])]

\* simple_linear_fit(time_axis, sample_points) on the rows with index in I
simple_linear_fit(time_axis, sample_points, I) ==
    LET lin_params == polyfit(time_axis, sample_points, I)
    IN  [lin_params |-> lin_params, yeval |-> polyval(lin_params, time_axis, I)]

\* the dictionary getAcquisitionTimings gives for a sequence without frame
\* labels and without bolus time, its times in minutes:
\* np.linspace(0, nt*60.0*1.0e3, num=nt, endpoint=True) / (1000 * 60)
getAcquisitionTimings(n) ==
    [timepoints    |-> [t \in 1 .. n |-> IF n = 1 THEN Zero ELSE Frac(n * (t - 1), n - 1)],
     injectionTime |-> Zero]

\* variant: the fit made on every row of the time-intensity array
FitRowsAll(n) == 1 .. n

\* rows 1: of the time-intensity array (the rows the fit is made on)
FitRows(n) == 2 .. n

----------------------------------------------------------------------------
(* Segments of the mask segmentation node *)

\* position of the segment with the given id (0 if there is none)
SegmentIndex(segs, id) ==
    IF \E i \in 1 .. Len(segs) : segs[i].id = id
    THEN CHOOSE i \in 1 .. Len(segs) : segs[i].id = id
    ELSE 0

\* arrayFromSegmentBinaryLabelmap: the voxels of the segment, on the grid of the
\* reference volume
arrayFromSegmentBinaryLabelmap(segs, id) ==
    IF SegmentIndex(segs, id) = 0 THEN {} ELSE segs[SegmentIndex(segs, id)].mask

RECURSIVE RemoveNamed(_, _)
RemoveNamed(segs, names) ==
    IF segs = <<>> THEN <<>>
    ELSE IF Head(segs).name \in names THEN RemoveNamed(Tail(segs), names)
    ELSE <<Head(segs)>> \o RemoveNamed(Tail(segs), names)

\* variant: no segment is removed
resetSegmentListKeepsAll(segs, items_to_remove) == segs

\* resetSegmentList(segmentationVolumeNode, items_to_remove): every segment
\* whose name is in items_to_remove is removed
resetSegmentList(segs, items_to_remove) ==
    RemoveNamed(segs, {items_to_remove[i] : i \in 1 .. Len(items_to_remove)})

\* voi_mask = np.zeros((nz, ny, nx)); voi_mask[ROI slice] = 1: the cells set to one
VoiMask(roi) == SliceOf(TemplateShape, roi)

\* updateSegmentBinaryLabelmapFromArray followed by arrayFromSegmentBinaryLabelmap:
\* the array is laid on the grid of the reference volume from index 0,0,0 and read
\* back on that grid
LabelmapOnReferenceGrid(cells) == cells \cap Voxels(shape)

\* ImportLabelmapToSegmentationNode(outputLabelMapVolumeNode, maskVolumeSegmentationNode):
\* one new segment for each label value present, named by the colour table entry
\* of that value (setupColourTable: entry k is the k-th key of the dictionary)
RECURSIVE ImportLabels(_, _, _, _)
ImportLabels(segs, lm, dict, k) ==
    IF k > Len(dict) - 1 THEN segs
    ELSE LET cells == {v \in DOMAIN lm.at : lm.at[v] = k}
             next  == IF cells = {} THEN segs
                      ELSE Append(segs, [id   |-> dict[k + 1].legend,
                                         name |-> dict[k + 1].legend,
                                         mask |-> LabelmapOnReferenceGrid(cells)])
         IN  ImportLabels(next, lm, dict, k + 1)

ImportLabelmapToSegmentationNode(segs, lm, dict) == ImportLabels(segs, lm, dict, 1)

----------------------------------------------------------------------------
(* Inputs the model draws from *)

\* number of timepoints of the input sequence
NT == 4

\* spatial shapes <<nz, ny, nx>> of the input sequence: a cube, a square slice,
\* and a slice with more columns than rows
GridShapes == {<<2, 2, 2>>, <<1, 3, 3>>, <<1, 1, 2>>}

\* a volume sequence from the curve of each voxel: the curve <<s0, s1, sn>> of a
\* voxel gives its intensity at timepoint 0, at timepoint 1 and at every later one
VolumeOf(sh, curve) ==
    [t \in 1 .. NT |-> [v \in Voxels(sh) |-> curve[v][Min(t, 3)]]]

AllCurves == (0 .. MaxI) \X (0 .. MaxI) \X (0 .. MaxI)

\* an enhancing curve with wash-out, and a curve that does not enhance
CallCurves == {<<1, 3, 2>>, <<2, 1, 1>>}
\* the curves of the voxels around the one whose curve is varied
SurroundCurves == {<<1, 3, 2>>, <<0, 3, 0>>}

Corner == <<0, 0, 0>>

\* every voxel with the same curve
UniformVolumes(sh, curves) ==
    {VolumeOf(sh, [v \in Voxels(sh) |-> c]) : c \in curves}

\* one voxel with any curve, the others with a common one
OneVoxelVolumes(sh) ==
    {VolumeOf(sh, [v \in Voxels(sh) |-> IF v = Corner THEN c[1] ELSE c[2]]) :
        c \in AllCurves \X SurroundCurves}

\* what the user drew into the selected segment: nothing, every voxel, the
\* first column only, or, on a slice of three rows and three columns or more,
\* the first and the third column joined through the middle row (a segment
\* that does not fill the box around it, and whose principal axes are those of
\* the grid)
UserMasks(sh) ==
    {{}, Voxels(sh), {v \in Voxels(sh) : v[3] = 0}}
        \cup (IF sh[2] >= 3 /\ sh[3] >= 3
              THEN {{v \in Voxels(sh) : v[3] \in {0, 2} \/ (v[3] = 1 /\ v[2] = 1)}}
              ELSE {})

\* ROI boxes, corners in halves of a voxel after the RAS-to-IJK matrix: the
\* whole grid (reaching outside on every side), the columns 0 and 1, and the
\* columns from 1 on (given with its corners the other way round)
WholeGrid    == [RASmin |-> <<-3, -3, -3>>, RASmax |-> <<5, 5, 5>>]
FirstColumns == [RASmin |-> <<0, 0, 0>>,    RASmax |-> <<2, 4, 4>>]
LastColumns  == [RASmin |-> <<3, 4, 4>>,    RASmax |-> <<2, 0, 0>>]
RoiBoxes == {WholeGrid, FirstColumns, LastColumns}
\* no ROI node given to process
NoROINode == [RASmin |-> <<>>, RASmax |-> <<>>]

SelectedSegmentID == "Segment_1"

ArgsOf(inp, msk, roi, pre, early, late, pe, bk) ==
    [inputVolumeSequenceNode    |-> inp,
     maskVolumeSegmentationNode |-> msk,
     referenceBoxROINode        |-> roi,
     preContrastIndex           |-> pre,
     earlyPostContrastIndex     |-> early,
     latePostContrastIndex      |-> late,
     PEthreshold                |-> pe,
     timings                    |-> "getAcquisitionTimings",
     SERthreshold               |-> 140,
     BKGRNDthreshold            |-> bk,
     segmentNodeID              |-> SelectedSegmentID]

\* the calls of the orchestration specification: valid calls for every ROI box
\* with early # late and early = late, the three kinds of invalid call, a call
\* without ROI node, one with timings None and one with the default timings {}
CallArgs ==
    {ArgsOf(TRUE, TRUE, roi, 0, 1, late, 0, 0) : roi \in RoiBoxes, late \in {1, 2}}
    \cup {ArgsOf(FALSE, TRUE, WholeGrid, 0, 1, 2, 0, 0),
          ArgsOf(TRUE, FALSE, WholeGrid, 0, 1, 2, 0, 0),
          ArgsOf(TRUE, TRUE, WholeGrid, 1, 1, 2, 0, 0),
          ArgsOf(TRUE, TRUE, WholeGrid, 1, 1, 1, 0, 0),
          ArgsOf(TRUE, FALSE, WholeGrid, 0, 1, 1, 0, 0),
          ArgsOf(TRUE, TRUE, NoROINode, 0, 1, 2, 0, 0),
          [ArgsOf(TRUE, TRUE, WholeGrid, 0, 1, 2, 0, 0) EXCEPT !.timings = "None"],
          [ArgsOf(TRUE, TRUE, WholeGrid, 0, 1, 2, 0, 0) EXCEPT !.timings = "{}"]}

\* the calls of the map specification: every ROI box, thresholds zero and the
\* defaults of the widget, late index equal to the early one and the default -1
MapArgs ==
    {ArgsOf(TRUE, TRUE, roi, 0, 1, late, th[1], th[2]) :
        roi \in RoiBoxes, late \in {1, -1}, th \in {<<0, 0>>, <<70, 60>>}}

----------------------------------------------------------------------------
(* The widget: parameter node, observations and the Apply button *)

\* the widget after __init__ (lines 202-210) in a scene that holds the loaded
\* sequence and the mask segmentation. _parameterNode is the wrapper object
\* the widget holds (0 for None), _parameterNodeGuiTag its GUI tag (0 for
\* None); guiConnections are the <<wrapper, tag>> pairs connected to the GUI,
\* observations the wrappers whose ModifiedEvent calls _checkCanApply, removed
\* the wrappers of a parameter node that a scene close has taken away;
\* input4DVolume and inputMaskVolume tell whether the parameter node of the
\* scene has the node selected. The form starts with the Apply button disabled.
quantificationWidget ==
    [setupDone              |-> FALSE,
     isEntered              |-> FALSE,
     closing                |-> FALSE,
     _parameterNode         |-> 0,
     _parameterNodeGuiTag   |-> 0,
     guiConnections         |-> {},
     observations           |-> {},
     removed                |-> {},
     sequenceInScene        |-> TRUE,
     segmentationInScene    |-> TRUE,
     input4DVolume          |-> FALSE,
     inputMaskVolume        |-> FALSE,
     applyEnabled           |-> FALSE]

\* the wrapper objects something still refers to
WrappersInUse(w) ==
    ({w._parameterNode} \ {0}) \cup w.observations \cup {c[1] : c \in w.guiConnections}

\* quantificationLogic.getParameterNode (lines 1126-1127): a new wrapper
\* object around the parameter node of the scene, on every call
getParameterNode(w) ==
    CHOOSE n \in 1 .. Cardinality(WrappersInUse(w)) + 1 :
        /\ n \notin WrappersInUse(w)
        /\ \A m \in 1 .. n - 1 : m \in WrappersInUse(w)

\* connectGui gives a tag the wrapper has not given to a connection it holds
connectGui(w, node) ==
    CHOOSE t \in 1 .. Cardinality(w.guiConnections) + 1 :
        /\ <<node, t>> \notin w.guiConnections
        /\ \A u \in 1 .. t - 1 : <<node, u>> \in w.guiConnections

\* _checkCanApply (lines 638-702): with a sequence and a mask the button is
\* enabled, with a sequence and no mask it is left as it is, without a
\* sequence it is disabled
_checkCanApply(w) ==
    IF w._parameterNode # 0 /\ w.input4DVolume
    THEN IF w.inputMaskVolume THEN [w EXCEPT !.applyEnabled = TRUE] ELSE w
    ELSE [w EXCEPT !.applyEnabled = FALSE]

\* the parameter node of the scene is modified: every observation on it calls
\* _checkCanApply
Modified(w) ==
    IF w.observations \ w.removed # {} THEN _checkCanApply(w) ELSE w

\* variant: the new node is connected and observed, the old one not let go
setParameterNodeKeepsOld(w, inputParameterNode) ==
    LET w2 == [w EXCEPT !._parameterNode = inputParameterNode]
    IN  IF inputParameterNode = 0
        THEN w2
        ELSE LET tag == connectGui(w2, inputParameterNode)
                 w3 == [w2 EXCEPT !._parameterNodeGuiTag = tag,
                                  !.guiConnections = @ \cup {<<inputParameterNode, tag>>},
                                  !.observations = @ \cup {inputParameterNode}]
             IN  IF w3.input4DVolume THEN _checkCanApply(w3) ELSE w3

\* setParameterNode (lines 577-635): the GUI connection with the held tag and
\* the observation are taken off the old node (taking off what is not there
\* does nothing), the new node is connected, observed and, with a sequence
\* selected, checked
setParameterNode(w, inputParameterNode) ==
    LET w1 == IF w._parameterNode # 0
              THEN [w EXCEPT !.guiConnections =
                                  @ \ {<<w._parameterNode, w._parameterNodeGuiTag>>},
                             !.observations = @ \ {w._parameterNode}]
              ELSE w
        w2 == [w1 EXCEPT !._parameterNode = inputParameterNode]
    IN  IF inputParameterNode = 0
        THEN w2
        ELSE LET tag == connectGui(w2, inputParameterNode)
                 w3 == [w2 EXCEPT !._parameterNodeGuiTag = tag,
                                  !.guiConnections = @ \cup {<<inputParameterNode, tag>>},
                                  !.observations = @ \cup {inputParameterNode}]
             IN  IF w3.input4DVolume THEN _checkCanApply(w3) ELSE w3

\* initializeParameterNode (lines 424-574), the parameter node part: the
\* first sequence of the scene becomes the input if none is selected; with an
\* input, the first segmentation of the scene, or a new one, becomes the mask
\* if none is selected. Every assignment modifies the parameter node.
initializeParameterNode(w) ==
    LET w1 == setParameterNode(w, getParameterNode(w))
        w2 == IF ~w1.input4DVolume /\ w1.sequenceInScene
              THEN Modified([w1 EXCEPT !.input4DVolume = TRUE])
              ELSE w1
    IN  IF w2.input4DVolume /\ ~w2.inputMaskVolume
        THEN Modified([w2 EXCEPT !.inputMaskVolume = TRUE, !.segmentationInScene = TRUE])
        ELSE w2

\* lines 470-483: a mask segmentation without segments gets an empty one,
\* which becomes the selected segment
WithDefaultSegment(w, segs) ==
    IF w.inputMaskVolume /\ segs = <<>>
    THEN <<[id |-> SelectedSegmentID, name |-> SelectedSegmentID, mask |-> {}]>>
    ELSE segs

----------------------------------------------------------------------------
(* State *)

NoArray == [shape |-> <<0, 0, 0>>, at |-> <<>>]

\* the local variables of process before it has assigned them
EmptyFrame ==
    [roiIJK         |-> [IJKmin |-> <<0, 0, 0>>, IJKmax |-> <<0, 0, 0>>],
     PEmapTemplate  |-> NoArray,
     SERmapTemplate |-> NoArray,
     crop           |-> {},
     label          |-> {},
     base_mask      |-> {},
     PE             |-> <<>>,
     SER            |-> <<>>,
     seg_points     |-> {},
     SERmap         |-> <<>>,
     FTVvoxels      |-> 0,
     time_intensity_curve |-> [time |-> <<>>, PE |-> <<>>, fit |-> <<>>],
     lin_params     |-> <<>>]

NoRun == [completed |-> FALSE, args |-> <<>>, PE |-> NoArray, SER |-> <<>>,
          SERClass |-> NoArray]

\* the scene once the sequence is loaded and a segment selected; the volumes
\* are those of the set the chosen shape appears with in shapedVolumes
InitWith(shapedVolumes, lg) ==
    /\ \E sv \in shapedVolumes : shape = sv[1] /\ volume = sv[2]
    /\ logic = lg
    /\ scene = {}
    /\ segments \in {<<[id |-> SelectedSegmentID, name |-> SelectedSegmentID, mask |-> m]>> :
                        m \in UserMasks(shape)}
    /\ outputMaps = [MIP |-> NoArray, PE |-> NoArray, SER |-> NoArray]
    /\ labelMap = NoArray
    /\ tables = [TICTable |-> <<>>, SummaryTable |-> <<>>, SERSummaryTable |-> <<>>]
    /\ pc = "idle"
    /\ err = "none"
    /\ args = <<>>
    /\ frame = EmptyFrame
    /\ asked = 0
    /\ runs = 0
    /\ prev = NoRun
    /\ widget = IF lg.SERColourMapDictionary = <<>>
                THEN quantificationWidget
                ELSE initializeParameterNode([quantificationWidget EXCEPT !.setupDone = TRUE])

----------------------------------------------------------------------------
(* process, step by step *)

Idle == pc \in {"idle", "done", "raised", "returned"}

\* an exception leaves process: its local variables are gone, the nodes and
\* tables stay as they are at that point
Raise(e) ==
    /\ pc' = "raised"
    /\ err' = e
    /\ frame' = EmptyFrame

\* variant: the comparison of the pre-contrast and early indices left out
ProcessWithoutIndexCheck(callArgs) ==
    /\ Idle
    /\ UNCHANGED widget
    /\ runs < MaxRuns
    /\ \E a \in callArgs :
        /\ args' = a
        /\ IF ~a.inputVolumeSequenceNode \/ ~a.maskVolumeSegmentationNode
           THEN Raise("ValueError") /\ asked' = 0
           ELSE IF a.earlyPostContrastIndex = a.latePostContrastIndex
           THEN pc' = "confirm" /\ err' = "none" /\ frame' = EmptyFrame /\ asked' = 1
           ELSE pc' = "setup" /\ err' = "none" /\ frame' = EmptyFrame /\ asked' = 0
    /\ runs' = runs + 1
    /\ UNCHANGED <<shape, volume, logic, scene, segments, outputMaps, labelMap, tables, prev>>

\* variant: the comparison of the early and late indices made first
ProcessAsksFirst(callArgs) ==
    /\ Idle
    /\ UNCHANGED widget
    /\ runs < MaxRuns
    /\ \E a \in callArgs :
        /\ args' = a
        /\ IF a.earlyPostContrastIndex = a.latePostContrastIndex
           THEN pc' = "confirm" /\ err' = "none" /\ frame' = EmptyFrame /\ asked' = 1
           ELSE IF ~a.inputVolumeSequenceNode \/ ~a.maskVolumeSegmentationNode
           THEN Raise("ValueError") /\ asked' = 0
           ELSE IF a.preContrastIndex = a.earlyPostContrastIndex
           THEN Raise("ValueError") /\ asked' = 0
           ELSE pc' = "setup" /\ err' = "none" /\ frame' = EmptyFrame /\ asked' = 0
    /\ runs' = runs + 1
    /\ UNCHANGED <<shape, volume, logic, scene, segments, outputMaps, labelMap, tables, prev>>

\* the call and the validation of lines 1510-1516: a missing node or
\* pre = early raises, early = late asks for the confirmation
Process(callArgs) ==
    /\ Idle
    /\ UNCHANGED widget
    /\ runs < MaxRuns
    /\ \E a \in callArgs :
        /\ args' = a
        /\ IF ~a.inputVolumeSequenceNode \/ ~a.maskVolumeSegmentationNode
           THEN Raise("ValueError") /\ asked' = 0
           ELSE IF a.preContrastIndex = a.earlyPostContrastIndex
           THEN Raise("ValueError") /\ asked' = 0
           ELSE IF a.earlyPostContrastIndex = a.latePostContrastIndex
           THEN pc' = "confirm" /\ err' = "none" /\ frame' = EmptyFrame /\ asked' = 1
           ELSE pc' = "setup" /\ err' = "none" /\ frame' = EmptyFrame /\ asked' = 0
    /\ runs' = runs + 1
    /\ UNCHANGED <<shape, volume, logic, scene, segments, outputMaps, labelMap, tables, prev>>

\* variant: the answer is not looked at, the run goes on either way
confirmAnswerIgnored ==
    /\ pc = "confirm"
    /\ UNCHANGED widget
    /\ pc' = "setup"
    /\ UNCHANGED <<shape, volume, logic, scene, segments, outputMaps, labelMap, tables,
                   err, args, frame, asked, runs, prev>>

\* the answer of slicer.util.confirmYesNoDisplay (lines 1518-1520)
confirmYesNoDisplay ==
    /\ pc = "confirm"
    /\ UNCHANGED widget
    /\ \E ok \in BOOLEAN : pc' = IF ok THEN "setup" ELSE "returned"
    /\ UNCHANGED <<shape, volume, logic, scene, segments, outputMaps, labelMap, tables,
                   err, args, frame, asked, runs, prev>>

\* np.max(inputVolume4Darray, axis=0)
MipVolume ==
    [shape |-> shape,
     at |-> [v \in Voxels(shape) |->
               CHOOSE m \in {volume[t][v] : t \in 1 .. nt} :
                   \A t \in 1 .. nt : volume[t][v] <= m]]

\* lines 1528-1552: the time-intensity array with its time column (reading
\* 'timepoints' from a dictionary without it raises), the three temporary
\* volumes, the ROI in voxel indices (reading the bounds of a missing ROI node
\* raises), the MIP into the output sequence, the two templates
Setup ==
    /\ pc = "setup"
    /\ UNCHANGED widget
    /\ IF args.timings = "{}"
       THEN Raise("KeyError") /\ UNCHANGED <<scene, outputMaps>>
       ELSE IF args.referenceBoxROINode = NoROINode
       THEN /\ scene' = scene \cup {"temporary", "serMap", "peMap"}
            /\ Raise("AttributeError")
            /\ UNCHANGED outputMaps
       ELSE /\ scene' = scene \cup {"temporary", "serMap", "peMap"}
            /\ outputMaps' = [outputMaps EXCEPT !.MIP = MipVolume]
            /\ frame' = [frame EXCEPT
                            !.time_intensity_curve =
                                [time |-> IF args.timings = "None"
                                          THEN [t \in 1 .. nt |-> Frac(t - 1, 1)]
                                          ELSE getAcquisitionTimings(nt).timepoints,
                                 PE   |-> [t \in 1 .. nt |-> NaN],
                                 fit  |-> [t \in 1 .. nt |-> NaN]],
                            !.roiIJK = getBoxROIIJKCoordinates(args.referenceBoxROINode),
                            !.SERmapTemplate = ZerosInt(TemplateShape),
                            !.PEmapTemplate = Zeros(TemplateShape)]
            /\ pc' = "reset"
            /\ UNCHANGED err
    /\ UNCHANGED <<shape, volume, logic, segments, labelMap, tables, args, asked,
                   runs, prev>>

\* lines 1554-1567: the segments earlier runs imported are removed; reading
\* self.SERlegend raises when setSERColourMapDict has never run
ResetSegments ==
    /\ pc = "reset"
    /\ UNCHANGED widget
    /\ IF "SERlegend" \notin logic.attributes
       THEN Raise("AttributeError") /\ UNCHANGED segments
       ELSE /\ segments' = resetSegmentList(segments, logic.SERlegend)
            /\ pc' = "mask"
            /\ UNCHANGED <<err, frame>>
    /\ UNCHANGED <<shape, volume, logic, scene, outputMaps, labelMap, tables, args, asked,
                   runs, prev>>

\* lines 1568-1592: the label of the selected segment, replaced by the ROI box
\* when it is empty, then the crop of the sequence and of the label
MaskFallback ==
    /\ pc = "mask"
    /\ UNCHANGED widget
    /\ LET i     == SegmentIndex(segments, args.segmentNodeID)
           label == arrayFromSegmentBinaryLabelmap(segments, args.segmentNodeID)
           crop  == SliceOf(shape, frame.roiIJK)
       IN  IF label = {}
           THEN LET fromROI == LabelmapOnReferenceGrid(VoiMask(frame.roiIJK))
                IN  /\ segments' = [segments EXCEPT ![i].mask = fromROI,
                                                    ![i].name = "Segment from ROI"]
                    /\ frame' = [frame EXCEPT !.crop = crop, !.label = fromROI \cap crop]
           ELSE /\ segments' = segments
                /\ frame' = [frame EXCEPT !.crop = crop, !.label = label \cap crop]
    /\ pc' = "pe"
    /\ UNCHANGED <<shape, volume, logic, scene, outputMaps, labelMap, tables, err, args,
                   asked, runs, prev>>

\* inputVolume4Darray[index] restricted to the crop
Frame(index) == volume[TimeIndex(index)]

\* lines 1606-1650: the three frames are read (an index outside the sequence
\* raises), background mask, PE, PE mask, the PE map into its template and into
\* the output sequence; the temporary PE volume is removed
ComputePE ==
    /\ pc = "pe"
    /\ UNCHANGED widget
    /\ LET St0  == Frame(args.preContrastIndex)
           St1  == Frame(args.earlyPostContrastIndex)
           bg   == BackgroundMask(St0, frame.crop, frame.label, args.BKGRNDthreshold)
           pe   == PEraw(St0, St1, frame.crop)
           mask == PEMask(pe, bg, args.PEthreshold)
           PE   == Where(mask, pe)
       IN  IF \/ ~ValidIndex(args.preContrastIndex)
              \/ ~ValidIndex(args.earlyPostContrastIndex)
              \/ ~ValidIndex(args.latePostContrastIndex)
           THEN Raise("IndexError") /\ UNCHANGED <<scene, outputMaps>>
           ELSE IF ~CanAssign(SliceDims(shape, frame.roiIJK),
                              SliceDims(TemplateShape, frame.roiIJK))
           THEN Raise("ValueError") /\ UNCHANGED <<scene, outputMaps>>
           ELSE /\ frame' = [frame EXCEPT
                               !.base_mask = mask,
                               !.PE = PE,
                               !.PEmapTemplate = AssignSlice(@, frame.roiIJK, PE)]
                /\ outputMaps' = [outputMaps EXCEPT
                                    !.PE = AssignSlice(frame.PEmapTemplate, frame.roiIJK, PE)]
                /\ scene' = scene \ {"peMap"}
                /\ pc' = "ser"
                /\ UNCHANGED err
    /\ UNCHANGED <<shape, volume, logic, segments, labelMap, tables, args, asked, runs, prev>>

\* lines 1653-1658: SER, its clamps, the SER mask
ComputeSER ==
    /\ pc = "ser"
    /\ UNCHANGED widget
    /\ LET ser  == SERclamped(Frame(args.preContrastIndex),
                              Frame(args.earlyPostContrastIndex),
                              Frame(args.latePostContrastIndex), frame.crop)
           mask == SERMask(ser, frame.base_mask)
       IN  frame' = [frame EXCEPT !.base_mask = mask, !.SER = Where(mask, ser)]
    /\ pc' = "filter"
    /\ UNCHANGED <<shape, volume, logic, scene, segments, outputMaps, labelMap, tables,
                   err, args, asked, runs, prev>>

\* lines 1676-1695: the neighbourhood filter of the mask; seg_points
FilterMask ==
    /\ pc = "filter"
    /\ UNCHANGED widget
    /\ LET mask == ConnectivityMask(frame.base_mask, frame.crop)
       IN  frame' = [frame EXCEPT !.base_mask = mask, !.seg_points = mask]
    /\ pc' = "classify"
    /\ UNCHANGED <<shape, volume, logic, scene, segments, outputMaps, labelMap, tables,
                   err, args, asked, runs, prev>>

\* lines 1708-1729: the SER classes, into the template, the label map, the
\* segmentation and the output sequence
ClassifySER ==
    /\ pc = "classify"
    /\ UNCHANGED widget
    /\ LET SERmap == Classify(frame.SER, frame.base_mask, logic.SERLevelLB, logic.SERLevelUB)
           filled == AssignSlice(frame.SERmapTemplate, frame.roiIJK, SERmap)
       IN  IF ~CanAssign(SliceDims(shape, frame.roiIJK),
                         SliceDims(TemplateShape, frame.roiIJK))
           THEN Raise("ValueError") /\ UNCHANGED <<segments, outputMaps, labelMap>>
           ELSE /\ frame' = [frame EXCEPT !.SERmap = SERmap, !.SERmapTemplate = filled]
                /\ labelMap' = filled
                /\ segments' = ImportLabelmapToSegmentationNode(
                                   segments, filled, logic.SERColourMapDictionary)
                /\ outputMaps' = [outputMaps EXCEPT !.SER = filled]
                /\ pc' = "ftv"
                /\ UNCHANGED err
    /\ UNCHANGED <<shape, volume, logic, scene, tables, args, asked, runs, prev>>

\* ids AddEmptySegment gives to a segment 'FTV_Total' when 0, 1, ... segments
\* of that name are already there
FTVSegmentIDs == <<"FTV_Total", "FTV_Total_1", "FTV_Total_2", "FTV_Total_3", "FTV_Total_4">>

\* the segments named 'FTV_Total' an interrupted call has left
LeftFTVSegments(segs) == Cardinality({i \in 1 .. Len(segs) : segs[i].name = "FTV_Total"})

\* the mask segmentation when getStatsFromMask raises at line 1745: the empty
\* segment of line 1740 is not removed
WithEmptyFTVSegment(segs) ==
    Append(segs, [id   |-> FTVSegmentIDs[LeftFTVSegments(segs) + 1],
                  name |-> "FTV_Total",
                  mask |-> {}])

\* variant: the FTV label is imported into the selected segment instead of
\* the temporary segment 'FTV_Total'
ComputeFTVIntoSelectedSegment ==
    /\ pc = "ftv"
    /\ UNCHANGED widget
    /\ LET FTV == {v \in frame.crop : frame.SERmap[v] > 0}
       IN  \/ /\ FTV = {}
              /\ Raise("KeyError")
              /\ segments' = WithEmptyFTVSegment(segments)
              /\ UNCHANGED scene
           \/ /\ frame' = [frame EXCEPT !.FTVvoxels = Cardinality(FTV)]
              /\ segments' = [segments EXCEPT
                                 ![SegmentIndex(segments, args.segmentNodeID)].mask = FTV]
              /\ scene' = scene \ {"serMap"}
              /\ pc' = "tic"
              /\ UNCHANGED err
    /\ UNCHANGED <<shape, volume, logic, outputMaps, labelMap, tables, args, asked, runs, prev>>

\* lines 1732-1748: the FTV label (SERmap > 0) goes through a temporary label
\* node and a temporary segment 'FTV_Total', both removed again once its
\* statistics are read; the temporary SER volume is removed. For an FTV without
\* voxels the segment statistics either lack the entries getStatsFromMask reads
\* (KeyError at line 1745, the empty segment stays) or count 0 voxels.
ComputeFTV ==
    /\ pc = "ftv"
    /\ UNCHANGED widget
    /\ LET FTV == {v \in frame.crop : frame.SERmap[v] > 0}
       IN  \/ /\ FTV = {}
              /\ Raise("KeyError")
              /\ segments' = WithEmptyFTVSegment(segments)
              /\ UNCHANGED scene
           \/ /\ frame' = [frame EXCEPT !.FTVvoxels = Cardinality(FTV)]
              /\ scene' = scene \ {"serMap"}
              /\ pc' = "tic"
              /\ UNCHANGED <<err, segments>>
    /\ UNCHANGED <<shape, volume, logic, outputMaps, labelMap, tables, args, asked, runs, prev>>

\* lines 1750-1759: the mean enhancement of seg_points at every timepoint,
\* then the linear fit on the rows after the first. With no voxel in
\* seg_points the means are nan, and np.polyfit on nan either raises
\* LinAlgError (the SVD does not converge) or returns nan coefficients,
\* depending on the LAPACK build
ComputeTIC ==
    /\ pc = "tic"
    /\ UNCHANGED widget
    /\ LET PE  == [t \in 1 .. nt |->
                     MeanOver(Uptake(Frame(args.preContrastIndex), volume[t], frame.crop),
                              frame.seg_points)]
           fit == simple_linear_fit(frame.time_intensity_curve.time, PE, FitRows(nt))
       IN  \/ /\ frame' = [frame EXCEPT
                             !.time_intensity_curve.PE = PE,
                             !.time_intensity_curve.fit =
                                 [t \in 1 .. nt |->
                                     IF t \in FitRows(nt) THEN fit.yeval[t] ELSE @[t]],
                             !.lin_params = fit.lin_params]
              /\ pc' = "tables"
              /\ UNCHANGED err
           \/ /\ \E t \in FitRows(nt) : IsNaN(PE[t])
              /\ Raise("LinAlgError")
    /\ UNCHANGED <<shape, volume, logic, scene, segments, outputMaps, labelMap, tables,
                   args, asked, runs, prev>>

----------------------------------------------------------------------------
(* The tables *)

\* getStatsFromMask(...)['voxel_count'] and ['volume_cm3'] of a segment, the
\* volume counted in voxels
VoxelCount(seg) == Cardinality(seg.mask)

\* the last segment named as the i-th legend, 0 if none: the loop of lines
\* 1835-1847 writes row i once for every such segment, the last one stays
MatchingSegment(segs, legend) ==
    IF \E j \in 1 .. Len(segs) : segs[j].name = legend
    THEN CHOOSE j \in 1 .. Len(segs) :
            /\ segs[j].name = legend
            /\ \A k \in j + 1 .. Len(segs) : segs[k].name # legend
    ELSE 0

\* lines 1824-1859: the three columns of the SER distribution table. Row i is
\* the i-th legend; a legend without a segment gets 0.0 and 0.0; the row after
\* the legends is the FTV.
SERDistributionColumns(segs, legends, ftv, names) ==
    LET n == Len(legends)
        seg(i) == MatchingSegment(segs, legends[i])
        count(i) == IF seg(i) = 0 THEN 0 ELSE VoxelCount(segs[seg(i)])
    IN  <<[name |-> names[1],
           values |-> [i \in 1 .. n + 1 |->
                         IF i <= n THEN legends[i] ELSE "FTV (Total Volume)"]],
          [name |-> names[2],
           values |-> [i \in 1 .. n + 1 |->
                         IF i <= n THEN Frac(count(i), 1) ELSE Frac(ftv, 1)]],
          [name |-> names[3],
           values |-> [i \in 1 .. n + 1 |->
                         IF i <= n THEN Frac(100 * count(i), ftv)
                         ELSE Frac(100 * ftv, ftv)]]>>

\* a <= b for two finite numbers
LeFrac(a, b) == a[1] * b[2] <= b[1] * a[2]

\* np.max(uptake_ti, axis=0) at a voxel
MaxUptake(St0, v) ==
    LET u == {Frac(100 * (volume[t][v] - St0[v]), St0[v] + EPSILON) : t \in 1 .. nt}
    IN  CHOOSE m \in u : \A x \in u : LeFrac(x, m)

\* np.max(segmentStats['obb_diameter_mm']['value']) of the selected segment, in
\* voxel spacings: the longest side of the box around the segment, for the
\* boxes along the axes that the segments of this model are
ObbDiameter(mask) ==
    LET side(k) == IF mask = {} THEN 0
                   ELSE Max3(k, mask) - Min3(k, mask) + 1
    IN  Max(side(1), Max(side(2), side(3)))

\* time_intensity_curve[index, 0]
TimeAt(tic, index) == tic.time[TimeIndex(index)]

\* lines 1761-1821: the three columns of the summary table. The ROI volume is
\* counted in voxels times ellipsoidScale.
SummaryColumns(a, fr, names) ==
    LET St0  == Frame(a.preContrastIndex)
        mask == arrayFromSegmentBinaryLabelmap(segments, a.segmentNodeID)
        late  == Uptake(St0, Frame(a.latePostContrastIndex), fr.crop)
        early == Uptake(St0, Frame(a.earlyPostContrastIndex), fr.crop)
    IN  <<[name |-> names[1],
           values |-> <<"PE Threshold", "SER Threshold", "ROI longest axis", "ROI Volume",
                        "Bolus injection time", "Early Phase Time", "Late Phase Time",
                        "Maximum Enhancement", "Delta Enhancement",
                        "First Pass Enhancement", "Enhancement Slope">>],
          [name |-> names[2],
           values |-> <<Frac(a.PEthreshold, 1),
                        Frac(a.SERthreshold, 100),
                        Frac(ObbDiameter(mask), 1),
                        Frac(Cardinality(mask), 1),
                        getAcquisitionTimings(nt).injectionTime,
                        TimeAt(fr.time_intensity_curve, a.earlyPostContrastIndex),
                        TimeAt(fr.time_intensity_curve, a.latePostContrastIndex),
                        MeanOver([v \in fr.crop |-> MaxUptake(St0, v)], fr.seg_points),
                        MeanOver([v \in fr.crop |-> SubFrac(late[v], early[v])], fr.seg_points),
                        MeanOver(early, fr.seg_points),
                        fr.lin_params[1]>>],
          [name |-> names[3],
           values |-> <<"%", "[]", "mm", "cm3", "min", "min", "min", "%", "%", "%", "[]">>]>>

\* variant: the column is added after the others whatever its name
AddColumnAfter(table, column) == Append(table, column)

\* vtkMRMLTableNode.AddColumn(column): the table hands the array to
\* vtkFieldData.AddArray, which puts it in the place of the array of the same
\* name when there is one and after the others when there is none
AddColumn(table, column) ==
    IF \E i \in 1 .. Len(table) : table[i].name = column.name
    THEN [i \in 1 .. Len(table) |->
            IF table[i].name = column.name THEN column ELSE table[i]]
    ELSE Append(table, column)

\* the three AddColumn calls of lines 1865-1867 and of lines 1868-1870
AddColumns(table, columns) ==
    AddColumn(AddColumn(AddColumn(table, columns[1]), columns[2]), columns[3])

\* slicer.util.updateTableFromArray(tableNode, time_intensity_curve, names):
\* the table is emptied and gets one column for each column of the array
updateTableFromArray(tic, names) ==
    <<[name |-> names[1], values |-> tic.time],
      [name |-> names[2], values |-> tic.PE],
      [name |-> names[3], values |-> tic.fit]>>

TICTableRowNames == <<"Timepoint [min]", "PE (%)", "Linear Fit">>
SummaryTableRowNames == <<"Parameter", "Value", "Units">>
SERTableRowNames == <<"SER Range", "Volume (cm3)", "Distribution (%)">>

\* lines 1761-1870: the rows of the summary and of the SER distribution table
\* are computed, then the TIC table is replaced and the three columns of each
\* of the other two tables are added to it. timings['injectionTime'] (line 1800)
\* raises when timings is None; 100 * voxel_count / FTVstats[1] divides python
\* numbers: it raises when the FTV has no voxel.
FillTables ==
    /\ pc = "tables"
    /\ UNCHANGED widget
    /\ IF args.timings = "None"
       THEN Raise("TypeError") /\ UNCHANGED tables
       ELSE IF frame.FTVvoxels = 0
       THEN Raise("ZeroDivisionError") /\ UNCHANGED tables
       ELSE /\ tables' =
                [TICTable |->
                    updateTableFromArray(frame.time_intensity_curve, TICTableRowNames),
                 SummaryTable |->
                    AddColumns(tables.SummaryTable,
                               SummaryColumns(args, frame, SummaryTableRowNames)),
                 SERSummaryTable |->
                    AddColumns(tables.SERSummaryTable,
                               SERDistributionColumns(segments, logic.SERlegend,
                                                      frame.FTVvoxels, SERTableRowNames))]
            /\ pc' = "finish"
            /\ UNCHANGED <<err, frame>>
    /\ UNCHANGED <<shape, volume, logic, scene, segments, outputMaps, labelMap, args,
                   asked, runs, prev>>

\* lines 1872-1886: the viewers are updated and the last temporary node is removed
Finish ==
    /\ pc = "finish"
    /\ UNCHANGED widget
    /\ scene' = scene \ {"temporary"}
    /\ prev' = [completed |-> TRUE, args |-> args, PE |-> outputMaps.PE,
                SER |-> frame.SER, SERClass |-> outputMaps.SER]
    /\ frame' = EmptyFrame
    /\ pc' = "done"
    /\ UNCHANGED <<shape, volume, logic, segments, outputMaps, labelMap, tables, err,
                   args, asked, runs>>

----------------------------------------------------------------------------
(* The widget: its handlers *)

\* setup (lines 301-383): the logic is created and asked for the colour map
\* (lines 319, 350), then the parameter node is initialised (line 383)
WidgetSetup ==
    /\ pc = "idle"
    /\ ~widget.setupDone
    /\ logic.SERColourMapDictionary = <<>>
    /\ logic' = getSERColourMapDict(logic)
    /\ widget' = initializeParameterNode([widget EXCEPT !.setupDone = TRUE])
    /\ segments' = WithDefaultSegment(widget', segments)
    /\ UNCHANGED <<shape, volume, scene, outputMaps, labelMap, tables, pc, err,
                   args, frame, asked, runs, prev>>

\* the events reach the widget once it is set up and while process is not running
WidgetReady == widget.setupDone /\ Idle

\* enter (lines 392-396): the module is shown
enter ==
    /\ WidgetReady
    /\ ~widget.closing
    /\ widget' = initializeParameterNode([widget EXCEPT !.isEntered = TRUE])
    /\ segments' = WithDefaultSegment(widget', segments)
    /\ UNCHANGED <<shape, volume, logic, scene, outputMaps, labelMap, tables, pc, err,
                   args, frame, asked, runs, prev>>

\* exit (lines 399-406): another module is shown
exit ==
    /\ WidgetReady
    /\ ~widget.closing
    /\ widget' =
         LET w == [widget EXCEPT !.isEntered = FALSE]
         IN  IF w._parameterNode # 0
             THEN [w EXCEPT !.guiConnections =
                                 @ \ {<<w._parameterNode, w._parameterNodeGuiTag>>},
                            !._parameterNodeGuiTag = 0,
                            !.observations = @ \ {w._parameterNode}]
             ELSE w
    /\ UNCHANGED <<shape, volume, logic, scene, segments, outputMaps, labelMap, tables,
                   pc, err, args, frame, asked, runs, prev>>

\* onSceneStartClose (lines 409-413): the scene is about to be closed
onSceneStartClose ==
    /\ WidgetReady
    /\ ~widget.closing
    /\ widget' = [setParameterNode(widget, 0) EXCEPT !.closing = TRUE]
    /\ UNCHANGED <<shape, volume, logic, scene, segments, outputMaps, labelMap, tables,
                   pc, err, args, frame, asked, runs, prev>>

\* the scene without its nodes: the parameter node, the sequence, the
\* segmentation and the outputs are gone; the wrappers still in use are those
\* of a node that is no longer there
ClearedScene(w) ==
    [w EXCEPT !.removed = WrappersInUse(w),
              !.sequenceInScene = FALSE,
              !.segmentationInScene = FALSE,
              !.input4DVolume = FALSE,
              !.inputMaskVolume = FALSE]

\* onSceneEndClose (lines 416-421), after the scene has been cleared: a module
\* that is shown gets its parameter node again
onSceneEndClose ==
    /\ WidgetReady
    /\ widget.closing
    /\ widget' =
         LET w == [ClearedScene(widget) EXCEPT !.closing = FALSE]
         IN  IF w.isEntered THEN initializeParameterNode(w) ELSE w
    /\ scene' = {}
    /\ segments' = <<>>
    /\ outputMaps' = [MIP |-> NoArray, PE |-> NoArray, SER |-> NoArray]
    /\ labelMap' = NoArray
    /\ tables' = [TICTable |-> <<>>, SummaryTable |-> <<>>, SERSummaryTable |-> <<>>]
    /\ UNCHANGED <<shape, volume, logic, pc, err, args, frame, asked, runs, prev>>

\* the user loads the sequence into the scene
AddSequenceNode ==
    /\ WidgetReady
    /\ ~widget.closing
    /\ ~widget.sequenceInScene
    /\ widget' = [widget EXCEPT !.sequenceInScene = TRUE]
    /\ UNCHANGED <<shape, volume, logic, scene, segments, outputMaps, labelMap, tables,
                   pc, err, args, frame, asked, runs, prev>>

\* the selectors of the shown module: the input sequence or the mask
\* segmentation of the parameter node is selected (a node of the scene) or
\* cleared, which modifies the parameter node
SelectorChange ==
    /\ WidgetReady
    /\ ~widget.closing
    /\ widget.isEntered
    /\ \E selected \in BOOLEAN :
          \/ /\ selected => widget.sequenceInScene
             /\ selected # widget.input4DVolume
             /\ widget' = Modified([widget EXCEPT !.input4DVolume = selected])
          \/ /\ selected => widget.segmentationInScene
             /\ selected # widget.inputMaskVolume
             /\ widget' = Modified([widget EXCEPT !.inputMaskVolume = selected])
    /\ UNCHANGED <<shape, volume, logic, scene, segments, outputMaps, labelMap, tables,
                   pc, err, args, frame, asked, runs, prev>>

\* the arguments onApplyButton gives to process (lines 711-727): the nodes of
\* the parameter node, the ROI box around the grid, the default indices
\* 0, 1 and nt - 1, the timings of the sequence, the default thresholds
ApplyArgs ==
    {ArgsOf(widget.input4DVolume, widget.inputMaskVolume, WholeGrid, 0, 1, nt - 1, 70, 60)}

\* onApplyButton (lines 705-727): without an input sequence
\* getAcquisitionTimings(getBolus=True) fails at line 926 before process is
\* called; the error is displayed
onApplyButton ==
    /\ widget.setupDone
    /\ widget.isEntered
    /\ ~widget.closing
    /\ widget.applyEnabled
    /\ segments # <<>>
    /\ IF widget.input4DVolume
       THEN Process(ApplyArgs)
       ELSE /\ Idle
            /\ Raise("UnboundLocalError")
            /\ UNCHANGED <<shape, volume, logic, scene, segments, outputMaps, labelMap,
                           tables, args, asked, runs, prev, widget>>

----------------------------------------------------------------------------
(* Specifications *)

ShapedVolumes(volumesOf(_)) ==
    UNION {{<<sh, v>> : v \in volumesOf(sh)} : sh \in GridShapes}

\* a sequence cut to its first two timepoints
FirstTwo(vol) == SubSeq(vol, 1, 2)

\* a uniform sequence whose enhancement 100 (S - S0) / (S0 + EPSILON) at the
\* time t of every timepoint after the first is 2 t + 5, the times being those
\* of getAcquisitionTimings
LinearTICVolume(sh) ==
    LET S0 == 100 * (NT - 1) - EPSILON
    IN  [t \in 1 .. NT |->
            [v \in Voxels(sh) |->
                IF t = 1 THEN S0 ELSE S0 + 5 * (NT - 1) + 2 * NT * (t - 1)]]

\* the sequences of the orchestration: uniform ones of NT timepoints, the
\* enhancing one with two timepoints only, and the one with a linear
\* time-intensity curve
CallVolumes(sh) ==
    UniformVolumes(sh, CallCurves)
        \cup {FirstTwo(vol) : vol \in UniformVolumes(sh, {<<1, 3, 2>>})}
        \cup {LinearTICVolume(sh)}

\* The orchestration: a freshly constructed logic, used with or without the
\* widget, called up to MaxRuns times on the same nodes.
Init == InitWith(ShapedVolumes(CallVolumes), FreshLogic)

ProcessCall == Process(CallArgs)

Next ==
    \/ WidgetSetup
    \/ ProcessCall
    \/ confirmYesNoDisplay
    \/ Setup
    \/ ResetSegments
    \/ MaskFallback
    \/ ComputePE
    \/ ComputeSER
    \/ FilterMask
    \/ ClassifySER
    \/ ComputeFTV
    \/ ComputeTIC
    \/ FillTables
    \/ Finish

Spec == Init /\ [][Next]_vars

\* The maps: one call of process from the widget, over every curve of one voxel.
InitMaps == InitWith(ShapedVolumes(OneVoxelVolumes), SERColourMap)

ProcessMaps == runs = 0 /\ Process(MapArgs)

NextMaps ==
    \/ ProcessMaps
    \/ confirmYesNoDisplay
    \/ Setup
    \/ ResetSegments
    \/ MaskFallback
    \/ ComputePE
    \/ ComputeSER
    \/ FilterMask
    \/ ClassifySER
    \/ ComputeFTV
    \/ ComputeTIC
    \/ FillTables
    \/ Finish

SpecMaps == InitMaps /\ [][NextMaps]_vars

\* A grid with more columns than rows and a ROI on its last column: three
\* slices of two rows and three columns, every uniform sequence, one call.
WideShape == <<3, 2, 3>>

\* the ROI box of the last column of WideShape, all rows and slices
LastColumn == [RASmin |-> <<4, 0, 0>>, RASmax |-> <<4, 4, 4>>]

WideArgs == {ArgsOf(TRUE, TRUE, roi, 0, 1, 2, 0, 0) : roi \in {LastColumn, WholeGrid}}

InitWide ==
    InitWith({<<WideShape, v>> : v \in UniformVolumes(WideShape, AllCurves)}, SERColourMap)

ProcessWide == runs = 0 /\ Process(WideArgs)

NextWide ==
    \/ ProcessWide
    \/ Setup
    \/ ResetSegments
    \/ MaskFallback
    \/ ComputePE
    \/ ComputeSER
    \/ FilterMask
    \/ ClassifySER
    \/ ComputeFTV
    \/ ComputeTIC
    \/ FillTables
    \/ Finish

SpecWide == InitWide /\ [][NextWide]_vars

\* The widget: the module is set up on the loaded sequence, shown and hidden,
\* the scene closed and loaded again, the selectors changed, Apply pressed.
WidgetShape == <<1, 3, 3>>

InitWidget ==
    InitWith({<<WidgetShape, v>> : v \in UniformVolumes(WidgetShape, CallCurves)}, FreshLogic)

NextWidget ==
    \/ WidgetSetup
    \/ enter
    \/ exit
    \/ onSceneStartClose
    \/ onSceneEndClose
    \/ AddSequenceNode
    \/ SelectorChange
    \/ onApplyButton
    \/ Setup
    \/ ResetSegments
    \/ MaskFallback
    \/ ComputePE
    \/ ComputeSER
    \/ FilterMask
    \/ ClassifySER
    \/ ComputeFTV
    \/ ComputeTIC
    \/ FillTables
    \/ Finish

SpecWidget == InitWidget /\ [][NextWidget]_vars

----------------------------------------------------------------------------
(* Properties of process: validation and confirmation *)

\* a call process rejects at lines 1510-1514
InvalidCall(a) ==
    \/ ~a.inputVolumeSequenceNode
    \/ ~a.maskVolumeSegmentationNode
    \/ a.preContrastIndex = a.earlyPostContrastIndex

\* a call process asks about at lines 1516-1520
ConfirmCall(a) ==
    /\ ~InvalidCall(a)
    /\ a.earlyPostContrastIndex = a.latePostContrastIndex

\* the scene, the mask segmentation, the output sequence, the label map and
\* the tables are what they were
Untouched == UNCHANGED <<scene, segments, outputMaps, labelMap, tables>>

\* the steps of process from the first map on
MapSteps == {"pe", "ser", "filter", "classify", "ftv", "tic", "tables", "finish"}
\* the steps of process once the SER classes are assigned
ClassifiedSteps == {"ftv", "tic", "tables", "finish"}

\* C1: a call with the input sequence missing, the mask segmentation missing or
\* the pre-contrast index equal to the early index ends in a ValueError in the
\* call itself: no node is created, the mask segmentation, the output sequence,
\* the label map and the tables are not modified, no confirmation is asked, and
\* no later step of process runs for that call.
C1_InvalidCallRaisesFirst ==
    /\ []((runs > 0 /\ InvalidCall(args)) => (pc = "raised" /\ err = "ValueError"))
    /\ [][(runs' = runs + 1 /\ InvalidCall(args'))
            => (pc' = "raised" /\ err' = "ValueError" /\ asked' = 0 /\ Untouched)]_vars

\* a call with pre = early, both nodes present, has been rejected after an
\* earlier call left its temporary nodes in the scene
C1_Witness ==
    /\ pc = "raised"
    /\ err = "ValueError"
    /\ runs = 2
    /\ args.inputVolumeSequenceNode
    /\ args.maskVolumeSegmentationNode
    /\ args.preContrastIndex = args.earlyPostContrastIndex
    /\ scene # {}

\* C2: a call with early = late (and pre # early, both nodes present) asks for
\* the confirmation before any node, map or table is written; both answers are
\* possible; on "no" process returns without an error and with the scene, the
\* mask segmentation, the output sequence, the label map and the tables as they
\* were; on "yes" the run goes on to its first step.
C2_ConfirmationFirst ==
    /\ [](pc = "returned" => (err = "none" /\ ConfirmCall(args)))
    /\ [](pc = "confirm" =>
            /\ ConfirmCall(args)
            /\ ENABLED (confirmYesNoDisplay /\ pc' = "returned")
            /\ ENABLED (confirmYesNoDisplay /\ pc' = "setup"))
    /\ [][(runs' = runs + 1 /\ ConfirmCall(args'))
            => (pc' = "confirm" /\ asked' = 1 /\ Untouched)]_vars
    /\ [][pc = "confirm"
            => (pc' \in {"setup", "returned"} /\ err' = "none" /\ Untouched)]_vars

\* a confirmed call with early = late has run to completion, and the same call
\* has then been declined
C2_Witness ==
    /\ pc = "returned"
    /\ prev.completed
    /\ ConfirmCall(prev.args)
    /\ prev.args = args

----------------------------------------------------------------------------
(* Properties of process: the mask and the bins *)

\* C3: when the selected segment is empty at the mask step, the step leaves in
\* it the mask that is 1 exactly at the voxels of the reference grid inside the
\* voxel bounds of the ROI.
C3_EmptyMaskBecomesROIBox ==
    [][(pc = "mask" /\ arrayFromSegmentBinaryLabelmap(segments, args.segmentNodeID) = {})
        => (arrayFromSegmentBinaryLabelmap(segments', args.segmentNodeID)
                = SliceOf(shape, frame.roiIJK))]_vars

\* C4: when process reaches the reset of the segments, the logic has its SER
\* bin bounds and legends, whether or not the colour map was asked for before.
C4_BinsDefinedAtReset ==
    pc = "reset" => {"SERLevelLB", "SERLevelUB", "SERlegend"} \subseteq logic.attributes

----------------------------------------------------------------------------
(* Properties of the maps *)

\* C5: every value of the PE map, in the crop and in the output sequence, is a
\* number >= 0, and every value of the SER map is a number between 0 and
\* INF_THRESHOLD.
C5_MapsInRange ==
    /\ \A v \in DOMAIN frame.PE : GeInt(frame.PE[v], 0)
    /\ \A v \in DOMAIN outputMaps.PE.at : GeInt(outputMaps.PE.at[v], 0)
    /\ \A v \in DOMAIN frame.SER :
          GeInt(frame.SER[v], 0) /\ LeInt(frame.SER[v], INF_THRESHOLD)

\* the SER map holds a positive value, and 0 at a voxel of the mask whose
\* quotient had a zero denominator and a positive numerator
C5_Witness ==
    /\ pc = "filter"
    /\ \E v \in frame.base_mask :
          /\ Frame(args.earlyPostContrastIndex)[v] > Frame(args.preContrastIndex)[v]
          /\ Frame(args.latePostContrastIndex)[v] - Frame(args.preContrastIndex)[v]
                + EPSILON = 0
          /\ frame.SER[v] = Zero
    /\ \E w \in frame.base_mask : GtInt(frame.SER[w], 0)

\* C6: once the classes are assigned, a voxel of the crop has class 0 if it is
\* outside the base mask and a class in 1 .. NBins + 1 if it is inside.
C6_ClassZeroIffOutsideMask ==
    pc \in ClassifiedSteps =>
        \A v \in frame.crop :
            IF v \in frame.base_mask
            THEN frame.SERmap[v] \in 1 .. NBins + 1
            ELSE frame.SERmap[v] = 0

\* C7: inside the base mask, a voxel has class i in 1 .. NBins exactly when its
\* SER is above the i-th bin edge and not above the next one, class NBins + 1
\* exactly when its SER is above the last edge, and some class whenever its
\* SER is positive.
C7_BinsOpenBelowClosedAbove ==
    pc \in ClassifiedSteps =>
        \A v \in frame.base_mask :
            LET r == frame.SER[v]
                c == frame.SERmap[v]
            IN  /\ GtInt(r, 0) => c \in 1 .. NBins + 1
                /\ \A i \in 1 .. NBins :
                      c = i <=> /\ 100 * r[1] > serMapInterval[i] * r[2]
                                /\ 100 * r[1] <= serMapInterval[i + 1] * r[2]
                /\ c = NBins + 1 <=> 100 * r[1] > serMapInterval[NBins + 1] * r[2]

\* a voxel with SER exactly 1.0 is in the bin that ends at 1.0 and a voxel with
\* SER exactly 3.0 in the bin that ends at 3.0
C7_Witness ==
    /\ pc = "ftv"
    /\ \E v \in frame.base_mask : frame.SER[v] = <<1, 1>> /\ frame.SERmap[v] = 2
    /\ \E w \in frame.base_mask : frame.SER[w] = <<3, 1>> /\ frame.SERmap[w] = 5

\* C8: whatever the intensities of a valid input are, process does not end in
\* an error of its arithmetic or of its statistics.
C8_DegenerateInputDoesNotRaise == err \notin {"ZeroDivisionError", "KeyError"}

----------------------------------------------------------------------------
(* Properties across calls *)

\* C9: a call with the arguments of the last completed call, on the same
\* sequence and nodes, computes the same PE map, the same SER map and the same
\* SER classes as that call.
C9_SameCallSameMaps ==
    (pc = "finish" /\ prev.completed /\ prev.args = args) =>
        /\ outputMaps.PE = prev.PE
        /\ frame.SER = prev.SER
        /\ outputMaps.SER = prev.SERClass

\* a call has been repeated up to its last step, with voxels of the crop in and
\* out of the filtered mask
C9_Witness ==
    /\ pc = "finish"
    /\ prev.completed
    /\ prev.args = args
    /\ frame.base_mask # {}
    /\ frame.base_mask # frame.crop

\* C10: from the first map on, a selected segment named 'Segment from ROI'
\* holds the mask of the ROI box of the call in progress.
C10_FallbackMaskFollowsROI ==
    (pc \in MapSteps
        /\ segments[SegmentIndex(segments, args.segmentNodeID)].name = "Segment from ROI")
    => (arrayFromSegmentBinaryLabelmap(segments, args.segmentNodeID)
            = LabelmapOnReferenceGrid(VoiMask(frame.roiIJK)))

----------------------------------------------------------------------------
(* Properties of the tables *)

\* whether a segment carries the legend of the i-th bin
HasSegment(i) == \E j \in 1 .. Len(segments) : segments[j].name = logic.SERlegend[i]

\* C11: the summary table and the SER distribution table never hold more than
\* their three columns, and when a call has written them they hold the columns
\* of that call, whatever earlier calls wrote.
C11_TablesHoldLatestRun ==
    /\ Len(tables.SummaryTable) \in {0, 3}
    /\ Len(tables.SERSummaryTable) \in {0, 3}
    /\ pc = "finish" =>
        /\ tables.SummaryTable = SummaryColumns(args, frame, SummaryTableRowNames)
        /\ tables.SERSummaryTable =
              SERDistributionColumns(segments, logic.SERlegend, frame.FTVvoxels,
                                     SERTableRowNames)
        /\ \A c \in 1 .. 3 : Len(tables.SummaryTable[c].values) = 11
        /\ \A c \in 1 .. 3 :
              Len(tables.SERSummaryTable[c].values) = Len(logic.SERlegend) + 1

\* a call has written the tables after a completed call with other arguments
C11_Witness ==
    /\ pc = "finish"
    /\ prev.completed
    /\ prev.args # args

\* C12: in the SER distribution table a bin without a segment of its legend has
\* no number (NaN) as volume and as percentage.
C12_UnmatchedBinIsMissing ==
    pc = "finish" =>
        \A i \in 1 .. Len(logic.SERlegend) :
            ~HasSegment(i) =>
                /\ IsNaN(tables.SERSummaryTable[2].values[i])
                /\ IsNaN(tables.SERSummaryTable[3].values[i])

\* the bin the SER threshold (in hundredths) lies in, 0 if in none
ftvThresholdBinIndex(SERthreshold) ==
    IF \E i \in 1 .. NBins :
          serMapInterval[i] < SERthreshold /\ SERthreshold <= serMapInterval[i + 1]
    THEN CHOOSE i \in 1 .. NBins :
          serMapInterval[i] < SERthreshold /\ SERthreshold <= serMapInterval[i + 1]
    ELSE 0

\* C13: the FTV counts exactly the voxels whose SER class is above the bin of
\* the SER threshold.
C13_FTVAboveThresholdBin ==
    pc \in {"tic", "tables", "finish"} =>
        frame.FTVvoxels =
            Cardinality({v \in frame.crop :
                            frame.SERmap[v] > ftvThresholdBinIndex(args.SERthreshold)})

\* C14: the first column of the SER distribution table holds the legends of
\* the bins in their order, then the FTV row and three more rows (ETV, peak PE,
\* peak SER).
C14_RowsOfDistributionTable ==
    pc = "finish" =>
        LET names == tables.SERSummaryTable[1].values
            n     == Len(logic.SERlegend)
        IN  /\ Len(names) = n + 4
            /\ \A i \in 1 .. n : names[i] = logic.SERlegend[i]
            /\ names[n + 1] = "FTV (Total Volume)"

----------------------------------------------------------------------------
(* Properties of the maps on an enhancing volume *)

\* the sequence enhances at every voxel, early and late
Enhancing ==
    \A v \in Voxels(shape) :
        /\ Frame(args.earlyPostContrastIndex)[v] > Frame(args.preContrastIndex)[v]
        /\ Frame(args.latePostContrastIndex)[v] > Frame(args.preContrastIndex)[v]

\* the label covers the crop and every voxel of the crop passes the background
\* threshold and the PE threshold
AllPass ==
    /\ frame.crop \subseteq frame.label
    /\ \A v \in frame.crop :
          /\ 2000 * Frame(args.preContrastIndex)[v]
                >= args.BKGRNDthreshold * Percentile95x20(Frame(args.preContrastIndex), frame.crop)
          /\ 100 * (Frame(args.earlyPostContrastIndex)[v] - Frame(args.preContrastIndex)[v])
                >= args.PEthreshold * (Frame(args.preContrastIndex)[v] + EPSILON)

\* the configured bin whose interval holds r > 0 (edges in hundredths), the
\* bin above the last edge being NBins + 1
BinOf(r) ==
    CHOOSE i \in 1 .. NBins + 1 :
        /\ 100 * r[1] > serMapInterval[i] * r[2]
        /\ i <= NBins => 100 * r[1] <= serMapInterval[i + 1] * r[2]

\* PE and SER of voxel v as the quotients of the three frames
QuotientsAt(v) ==
    LET S0 == Frame(args.preContrastIndex)[v]
        S1 == Frame(args.earlyPostContrastIndex)[v]
        Sn == Frame(args.latePostContrastIndex)[v]
    IN  /\ frame.PE[v] = Frac(100 * (S1 - S0), S0 + EPSILON)
        /\ frame.SER[v] = Frac(S1 - S0, (Sn - S0) + EPSILON)

\* C15 as stated: on an enhancing sequence whose voxels all pass the mask and
\* the thresholds, every voxel of the crop has PE = 100 (S1 - S0) / (S0 + eps),
\* SER = (S1 - S0) / (Sn - S0 + eps) and as class the bin that holds its SER.
C15_EnhancingMapsEverywhere ==
    (pc \in ClassifiedSteps /\ Enhancing /\ AllPass) =>
        \A v \in frame.crop :
            QuotientsAt(v) /\ frame.SERmap[v] = BinOf(frame.SER[v])

\* C15 amended: PE and SER are these quotients at every voxel of the crop; the
\* class is the bin that holds the SER at the voxels the neighbourhood filter
\* keeps and 0 at the voxels it removes.
C15_EnhancingMapsWhereKept ==
    (pc \in ClassifiedSteps /\ Enhancing /\ AllPass) =>
        \A v \in frame.crop :
            /\ QuotientsAt(v)
            /\ frame.SERmap[v] =
                  IF Convolve(frame.crop, v) >= 100 + PIXEL_CONNECTIVITY
                  THEN BinOf(frame.SER[v]) ELSE 0

\* an enhancing sequence, all voxels passing, in which the filter keeps a voxel
\* and removes another
C15_Witness ==
    /\ pc \in ClassifiedSteps
    /\ Enhancing
    /\ AllPass
    /\ \E v \in frame.crop : frame.SERmap[v] > 0
    /\ \E v \in frame.crop : frame.SERmap[v] = 0

----------------------------------------------------------------------------
(* Properties of the base mask after the fallback to the ROI box *)

\* the selected segment was empty and the call took the ROI box instead, with
\* both thresholds at zero, and the neighbourhood filter has run
FallbackWithZeroThresholds ==
    /\ pc \in {"classify"} \cup ClassifiedSteps
    /\ segments[SegmentIndex(segments, args.segmentNodeID)].name = "Segment from ROI"
    /\ args.PEthreshold = 0
    /\ args.BKGRNDthreshold = 0

\* the voxels of the crop that do not lose signal from the pre-contrast frame
\* to the early one and whose SER is a number
NotWashedOut ==
    {v \in frame.crop :
        LET S0 == Frame(args.preContrastIndex)[v]
            S1 == Frame(args.earlyPostContrastIndex)[v]
            Sn == Frame(args.latePostContrastIndex)[v]
        IN  S1 >= S0 /\ ~(S1 = S0 /\ (Sn - S0) + EPSILON = 0)}

----------------------------------------------------------------------------
(* Properties of the output arrays *)

\* C17: on every grid, also one with other rows than columns, the two
\* templates have the shape of the grid, and each output map has that shape,
\* the cropped map inside the voxel bounds of the ROI and 0 outside.
C17_OutputsOnFullGrid ==
    /\ pc \in {"reset", "mask"} \cup MapSteps =>
          /\ frame.PEmapTemplate.shape = shape
          /\ frame.SERmapTemplate.shape = shape
    /\ pc \in MapSteps \ {"pe"} =>
          /\ outputMaps.PE.shape = shape
          /\ \A v \in Voxels(shape) :
                outputMaps.PE.at[v] = IF v \in frame.crop THEN frame.PE[v] ELSE Zero
    /\ pc \in ClassifiedSteps =>
          /\ outputMaps.SER.shape = shape
          /\ \A v \in Voxels(shape) :
                outputMaps.SER.at[v] = IF v \in frame.crop THEN frame.SERmap[v] ELSE 0

----------------------------------------------------------------------------
(* Properties of the voxel bounds of the ROI *)

\* the integer nearest to h/2, the even one of the two when h/2 lies half-way
Nearest(h) ==
    CHOOSE r \in -Abs(h) .. Abs(h) :
        /\ Abs(2 * r - h) <= 1
        /\ Abs(2 * r - h) = 1 => r % 2 = 0

\* k moved into 0 .. dim - 1
Into(k, dim) == Max(0, Min(dim - 1, k))

\* C18: the voxel bounds process works with are, on every axis, the smaller of
\* the two rounded and clamped corners and the larger of them plus one, so that
\* 0 <= min < max <= dimension.
C18_VoxelBoundsOrdered ==
    pc \in {"reset", "mask"} \cup MapSteps =>
        \A a \in 1 .. 3 :
            LET p == Into(Nearest(args.referenceBoxROINode.RASmin[a]), VolumeSize[a])
                q == Into(Nearest(args.referenceBoxROINode.RASmax[a]), VolumeSize[a])
            IN  /\ frame.roiIJK.IJKmin[a] = Min(p, q)
                /\ frame.roiIJK.IJKmax[a] = Max(p, q) + 1
                /\ 0 <= frame.roiIJK.IJKmin[a]
                /\ frame.roiIJK.IJKmin[a] < frame.roiIJK.IJKmax[a]
                /\ frame.roiIJK.IJKmax[a] <= VolumeSize[a]

\* the bounds were computed for a box given with its corners the other way
\* round and with a corner beyond the last voxel
C18_Witness ==
    /\ pc = "reset"
    /\ \E a \in 1 .. 3 :
          args.referenceBoxROINode.RASmin[a] > args.referenceBoxROINode.RASmax[a]
    /\ \E a \in 1 .. 3 : args.referenceBoxROINode.RASmin[a] >= 2 * VolumeSize[a]

\* the bounds were computed for a box with a corner before the first voxel
C18_WitnessBelow ==
    /\ pc = "reset"
    /\ \E a \in 1 .. 3 : args.referenceBoxROINode.RASmin[a] <= -3

----------------------------------------------------------------------------
(* Properties of the linear fit of the time-intensity curve *)

\* the rows of the time-intensity array after the first
PostBaseline == 2 .. nt

\* what the fitted line leaves of the mean enhancement at row t
Residual(t) ==
    SubFrac(frame.time_intensity_curve.PE[t],
            AddFrac(MulFrac(frame.lin_params[1], frame.time_intensity_curve.time[t]),
                    frame.lin_params[2]))

\* C19: when seg_points is not empty, the slope and the intercept are those of
\* the least-squares line through the (time, mean enhancement) pairs of all the
\* rows after the first
\* and of no other row (the residuals of these rows sum to 0, alone and
\* weighted by the time); the fitted column holds the value of the line at
\* exactly these rows; when the enhancement is 2 t + 5 at these rows, the
\* slope is 2 and the intercept 5.
C19_FitOnAllButFirstRow ==
    (pc \in {"tables", "finish"} /\ frame.seg_points # {}) =>
        /\ SumFrac([t \in PostBaseline |-> Residual(t)], PostBaseline) = Zero
        /\ SumFrac([t \in PostBaseline |->
                      MulFrac(frame.time_intensity_curve.time[t], Residual(t))],
                   PostBaseline) = Zero
        /\ \A t \in PostBaseline :
              frame.time_intensity_curve.fit[t] =
                  SubFrac(frame.time_intensity_curve.PE[t], Residual(t))
        /\ IsNaN(frame.time_intensity_curve.fit[1])
        /\ (nt >= 3 /\ \A t \in PostBaseline :
                frame.time_intensity_curve.PE[t] =
                    AddFrac(MulFrac(Frac(2, 1), frame.time_intensity_curve.time[t]),
                            Frac(5, 1)))
              => frame.lin_params = <<Frac(2, 1), Frac(5, 1)>>

\* the fit was made on three or more rows whose enhancement is 2 t + 5, the
\* first row lying off this line
C19_Witness ==
    /\ pc = "tables"
    /\ nt >= 4
    /\ \A t \in PostBaseline :
          frame.time_intensity_curve.PE[t] =
              AddFrac(MulFrac(Frac(2, 1), frame.time_intensity_curve.time[t]), Frac(5, 1))
    /\ frame.time_intensity_curve.PE[1] # Frac(5, 1)
    /\ frame.lin_params = <<Frac(2, 1), Frac(5, 1)>>

\* C20: the fit of process is made on two or more rows: a sequence of fewer
\* than three timepoints does not reach it.
C20_FitNeedsThreeTimepoints ==
    pc \in {"tables", "finish"} => nt >= 3

----------------------------------------------------------------------------
(* Properties of the summary table *)

\* the product of the three sides of the box around the mask, in voxels
ObbVolume(mask) ==
    IF mask = {} THEN 0
    ELSE (Max3(1, mask) - Min3(1, mask) + 1)
            * (Max3(2, mask) - Min3(2, mask) + 1)
            * (Max3(3, mask) - Min3(3, mask) + 1)

\* C21: the row 'ROI Volume' of the summary table is the ellipsoid scale
\* (pi / 6) times the volume of the box around the selected segment; the
\* table value is held in units of the ellipsoid scale times one voxel.
C21_ROIVolumeFromBox ==
    pc = "finish" =>
        tables.SummaryTable[2].values[4] =
            Frac(ObbVolume(arrayFromSegmentBinaryLabelmap(segments, args.segmentNodeID)), 1)

----------------------------------------------------------------------------
(* Properties of the neighbourhood filter *)

\* the voxels of mask other than v that are next to v, diagonals included
TrueNeighbours(mask, v) ==
    {w \in mask : w # v /\ \A k \in 1 .. 3 : Abs(w[k] - v[k]) <= 1}

\* C22: the filter step only removes voxels from the base mask, and keeps a
\* voxel exactly when it was in the mask with at least PIXEL_CONNECTIVITY of
\* its 26 neighbours in the mask, the cells outside the crop counting as not
\* in the mask.
C22_FilterKeepsConnectedVoxels ==
    [][pc = "filter" =>
        /\ frame'.base_mask \subseteq frame.base_mask
        /\ \A v \in frame.crop :
              v \in frame'.base_mask <=>
                  /\ v \in frame.base_mask
                  /\ Cardinality(TrueNeighbours(frame.base_mask, v)) >= PIXEL_CONNECTIVITY]_vars

\* the filter has kept a voxel that has exactly PIXEL_CONNECTIVITY neighbours
\* left and removed a voxel that had passed the thresholds
C22_Witness ==
    /\ pc = "classify"
    /\ \E v \in frame.base_mask :
          Cardinality({w \in frame.crop : GtInt(frame.SER[w], 0) /\ w # v
                          /\ \A k \in 1 .. 3 : Abs(w[k] - v[k]) <= 1}) = PIXEL_CONNECTIVITY
    /\ \E v \in frame.crop \ frame.base_mask : GtInt(frame.SER[v], 0)

----------------------------------------------------------------------------
(* Properties of the exits of process *)

TemporaryNodes == {"temporary", "serMap", "peMap", "FTV label"}

\* C23: whenever process has ended, by its return, by a declined confirmation
\* or by an error, none of its temporary nodes is in the scene, and unless it
\* has returned normally the PE and SER outputs are those of the last
\* completed call.
C23_ExitLeavesNothingBehind ==
    pc \in {"done", "raised", "returned"} =>
        /\ scene \cap TemporaryNodes = {}
        /\ pc # "done" => outputMaps.PE = prev.PE /\ outputMaps.SER = prev.SERClass

----------------------------------------------------------------------------
(* Properties of the segmentation node over several calls *)

\* how many segments carry the name
SegmentsNamed(name) == Cardinality({i \in 1 .. Len(segments) : segments[i].name = name})

\* C24: the segmentation node never holds two segments with the same SER
\* legend; a step that leaves one more segment named 'FTV_Total' is a step that
\* raises, so that calls that all complete leave none; and the content of the
\* selected segment changes only where the empty segment gets the ROI mask.
C24_SegmentsOverRuns ==
    /\ [](\A k \in 1 .. Len(SERColourMap.SERlegend) :
            SegmentsNamed(SERColourMap.SERlegend[k]) <= 1)
    /\ [](pc = "done" /\ runs = 1 => SegmentsNamed("FTV_Total") = 0)
    /\ [][/\ LeftFTVSegments(segments') > LeftFTVSegments(segments) => pc' = "raised"
          /\ arrayFromSegmentBinaryLabelmap(segments', SelectedSegmentID)
                # arrayFromSegmentBinaryLabelmap(segments, SelectedSegmentID)
             => /\ pc = "mask"
                /\ arrayFromSegmentBinaryLabelmap(segments, SelectedSegmentID) = {}
          /\ SegmentIndex(segments', SelectedSegmentID) # 0]_vars

\* a second call is completing after a first completed one, with SER segments
\* in the node
C24_Witness ==
    /\ pc = "finish"
    /\ runs = 2
    /\ prev.completed
    /\ \E k \in 1 .. Len(SERColourMap.SERlegend) :
          SegmentsNamed(SERColourMap.SERlegend[k]) = 1
    /\ SegmentsNamed("FTV_Total") = 0

----------------------------------------------------------------------------
(* Properties of the SER distribution *)

\* the voxels of the segment of the i-th legend ({} when there is none)
BinVoxels(i) ==
    IF MatchingSegment(segments, logic.SERlegend[i]) = 0 THEN {}
    ELSE segments[MatchingSegment(segments, logic.SERlegend[i])].mask

\* C25: when the tables are written (the FTV then has voxels), the segments of
\* the bins are pairwise disjoint, their voxel counts add up to the voxel
\* count of the FTV, the percentages of the bin rows add up to 100 and the
\* percentage of the FTV row is 100.
C25_BinsPartitionFTV ==
    pc = "finish" =>
        LET n == Len(logic.SERlegend) IN
        /\ \A i, j \in 1 .. n : i # j => BinVoxels(i) \cap BinVoxels(j) = {}
        /\ Cardinality(UNION {BinVoxels(i) : i \in 1 .. n}) = frame.FTVvoxels
        /\ SumFrac([i \in 1 .. n |-> tables.SERSummaryTable[3].values[i]], 1 .. n)
              = Frac(100, 1)
        /\ tables.SERSummaryTable[3].values[n + 1] = Frac(100, 1)

----------------------------------------------------------------------------
(* Properties of the colour map *)

\* the voxels of the reference grid that have class k in the label map
LabelledAs(k) == {v \in DOMAIN labelMap.at : labelMap.at[v] = k} \cap Voxels(shape)

\* C26: once the logic has its colour map, the legend list has NBins + 1
\* entries and the dictionary NBins + 2, entry 0 of the dictionary is 'non SER'
\* and entry k is the k-th legend; a segment named as the k-th legend holds
\* the voxels of class k; asking for the dictionary again gives the logic as
\* it is, and no step changes the colour map once it is there.
C26_LabelsLegendsColoursAligned ==
    /\ []("SERlegend" \in logic.attributes =>
            /\ Len(logic.SERlegend) = NBins + 1
            /\ Len(logic.SERColourMapDictionary) = NBins + 2
            /\ logic.SERColourMapDictionary[1].legend = "non SER"
            /\ \A k \in 1 .. NBins + 1 :
                  /\ logic.SERColourMapDictionary[k + 1].legend = logic.SERlegend[k]
                  /\ logic.SERlegend[k] # "non SER"
                  /\ \A j \in 1 .. NBins + 1 :
                        j # k => logic.SERlegend[j] # logic.SERlegend[k]
                  /\ \A i \in 1 .. Len(segments) :
                        segments[i].name = logic.SERlegend[k]
                            => segments[i].mask = LabelledAs(k))
    /\ [](logic.SERColourMapDictionary # <<>> => getSERColourMapDict(logic) = logic)
    /\ [][logic.SERColourMapDictionary # <<>> => logic' = logic]_vars

\* the widget has asked for the dictionary and a call has imported the
\* segment of a class
C26_Witness ==
    /\ pc = "ftv"
    /\ logic.SERColourMapDictionary # <<>>
    /\ \E k \in 1 .. NBins + 1 :
          /\ LabelledAs(k) # {}
          /\ \E i \in 1 .. Len(segments) :
                segments[i].name = logic.SERlegend[k] /\ segments[i].mask = LabelledAs(k)

----------------------------------------------------------------------------
(* Properties of process: the order of validation and confirmation *)

\* a call that is rejected at lines 1510-1514 and whose early and late indices
\* are equal
InvalidAndEqualLate(a) ==
    /\ InvalidCall(a)
    /\ a.earlyPostContrastIndex = a.latePostContrastIndex

\* C27: a call whose early and late indices are equal and which has a node
\* missing or the pre-contrast index equal to the early one raises ValueError
\* in the call itself; the confirmation is not asked for it, neither in the
\* call nor at any later point of that invocation.
C27_ValidationBeforeConfirmation ==
    /\ [][(runs' = runs + 1 /\ InvalidAndEqualLate(args'))
            => (pc' = "raised" /\ err' = "ValueError" /\ asked' = 0)]_vars
    /\ []((runs > 0 /\ InvalidAndEqualLate(args))
            => (asked = 0 /\ pc \notin {"confirm", "returned", "setup"}))

\* a call with the mask segmentation missing and early = late has been
\* rejected in a call that is not the first
C27_Witness ==
    /\ pc = "raised"
    /\ err = "ValueError"
    /\ asked = 0
    /\ runs >= 2
    /\ ~args.maskVolumeSegmentationNode
    /\ args.preContrastIndex # args.earlyPostContrastIndex
    /\ args.earlyPostContrastIndex = args.latePostContrastIndex

----------------------------------------------------------------------------
(* Properties of the widget *)

\* C28: the Apply button is enabled only while the parameter node has both an
\* input sequence and a mask segmentation selected.
C28_ApplyOnlyWithSequenceAndMask ==
    widget.applyEnabled => (widget.input4DVolume /\ widget.inputMaskVolume)

\* C29: the widget has at most one ModifiedEvent observation and at most one
\* GUI connection, both on the parameter node it holds (the connection under
\* the tag it holds) and none on a parameter node that is no longer in the
\* scene or that the widget no longer holds.
C29_OneObservationOneConnection ==
    /\ Cardinality(widget.observations) <= 1
    /\ Cardinality(widget.guiConnections) <= 1
    /\ \A o \in widget.observations :
          o = widget._parameterNode /\ o \notin widget.removed
    /\ \A c \in widget.guiConnections :
          /\ c[1] = widget._parameterNode
          /\ c[2] = widget._parameterNodeGuiTag
          /\ c[1] \notin widget.removed

\* the scene has been closed while the module was shown, and the widget has
\* its observation and its GUI connection on the parameter node of the new scene
C29_Witness ==
    /\ widget.setupDone
    /\ widget.isEntered
    /\ ~widget.closing
    /\ ~widget.sequenceInScene
    /\ widget._parameterNode # 0
    /\ widget.observations = {widget._parameterNode}
    /\ widget.guiConnections = {<<widget._parameterNode, widget._parameterNodeGuiTag>>}

====
